---- MODULE Spec2Model ----
(***************************************************************************)
(* Model of the hermes transaction wrapper (src/tx.go): one Tx object      *)
(* created by DB.Begin / DB.BeginCtx, shared by every nested Begin, with   *)
(* its per-level state `current`, the stack `history`, the sticky flag     *)
(* `rollback` and the bound context.  Every Tx method holds the Tx mutex   *)
(* for its whole body, so one method call is one atomic action.            *)
(*                                                                         *)
(* The backend handle (tx.internal, a database/sql transaction) is         *)
(* modelled at its call sites: a commit or rollback of an open handle      *)
(* either succeeds or fails with a backend error, and any call on a handle *)
(* that has already been committed or rolled back is answered with         *)
(* ErrTxDone.                                                              *)
(***************************************************************************)
EXTENDS Integers, Sequences, FiniteSets, TLC

\* ---------------------------------------------------------------- bounds
\* deepest history stack explored
MaxDepth == 2
\* number of Begin, BeginCtx, Commit, Rollback and Close calls explored
MaxOps == 6
\* number of statement, Savepoint and RollbackTo calls explored
MaxStmts == 1
\* Close calls explored beyond the ones that match a Begin
MaxExtraClose == 1
\* number of method calls explored on a bare DB
MaxDBOps == 3
\* number of statements explored in the savepoint scenario
MaxSpOps == 6
\* number of method calls explored on the Tx that records failures
MaxV1Ops == 4
\* number of calls and timer steps explored with the transaction timer
MaxWDOps == 6
\* most ticks the retry ticker of Connect delivers before it gives up
MaxTicks == 3
\* number of calls explored on a connection after Connect
MaxCnOps == 3

\* ------------------------------------------------------- program constants
_pending == 0
_rollback == 1
_commit == 2

NoCtx == "nil"
Ctxs == {"ctxA", "ctxB"}

ErrNil == "nil"
ErrBadContext == "ErrBadContext"
ErrTxRolledBack == "ErrTxRolledBack"
ErrTxCommitted == "ErrTxCommitted"
\* errors handed back by the backend handle
ErrTxDone == "ErrTxDone"
ErrBackend == "ErrBackend"

StmtOps == {"Exec", "Query", "Row", "Prepare", "Get", "Select"}
SavepointOps == {"Savepoint", "RollbackTo"}
GuardedOps == StmtOps \cup SavepointOps \cup {"Begin", "BeginCtx", "Commit"}

VARIABLES
    tx,         \* the Tx fields: current, history, rollback, ctx
    bstate,     \* tx.internal: "open", "committed" or "rolledback"
    last,       \* the last method call: name, result, backend calls, the
                \* state it was called in, and whether the call before it
                \* was a Commit or Rollback that returned nil
    depth,      \* successful Begin calls not yet matched by a Close, minus one
    overClosed, \* a Close was called with no Begin left to match
    script,     \* which calling pattern the run has followed so far
    nCommit,    \* backend commits issued so far
    nRollback,  \* backend rollbacks issued so far
    rbFailed,   \* a backend rollback of the open handle has failed
    cmFailed,   \* a backend commit of the open handle has failed
    sealed,     \* the outermost Commit succeeded, Close followed it, and no
                \* Begin or BeginCtx has been called since
    ended,      \* the Close matching DB.Begin has been called
    nBegin,     \* backend transactions begun for this Tx
    steps,      \* Begin, BeginCtx, Commit, Rollback and Close calls so far
    stmts       \* statement, Savepoint and RollbackTo calls so far

txVars == <<tx, bstate, last, depth, overClosed, script, nCommit, nRollback,
            rbFailed, cmFailed, sealed, ended, nBegin, steps, stmts>>

VARIABLES
    db,         \* the DB fields: whether OnFailure is set, whether the pool
                \* is still open
    dbLast,     \* the last DB method call and its results
    nFailure,   \* OnFailure invocations so far
    idSeq,      \* savepoint identifiers generated so far
    dbOps       \* DB method calls made so far

dbVars == <<db, dbLast, nFailure, idSeq, dbOps>>

VARIABLES
    sp,         \* the savepoint scenario: the rows inserted in the backend
                \* transaction, its savepoint marks, the rows the caller saw
                \* inserted when Savepoint handed it each identifier, and the
                \* identifiers, rows and calls counted so far
    spLast      \* the last call of the scenario and the one before it

spVars == <<sp, spLast>>

VARIABLES
    v1,         \* the Tx of src/unnamed/part_007: current, history, rollback,
                \* failure, ctx, whether its mutex is held, its backend
                \* handle, and the calls made so far
    v1Last      \* its last method call: name, argument, result, whether the
                \* call returned, and the fields it was called with

v1Vars == <<v1, v1Last>>

VARIABLES
    cc,         \* two threads calling Begin on one Tx: the Tx fields and its
                \* backend handle, whether this build of Begin takes the
                \* mutex, who holds the mutex, and len(history) at the start
    th          \* each thread's position in Begin, the values it has read,
                \* and what its Begin returned

ccVars == <<cc, th>>

VARIABLES
    wd,         \* the transaction timer: TxTimeout, the Tx of
                \* src/unnamed/part_006 with its timer field, the state of
                \* the time.Timer behind it, the reports made, and counters
    wdLast      \* the last call or timer step: name, argument, result,
                \* whether the call returned, and the state it started in

wdVars == <<wd, wdLast>>

VARIABLES
    cn,         \* connecting: the data source, what Connect or
                \* ConnectUnchecked returned, the DB it built, and counters
    cnLast      \* the last call: name, results, dial and ping attempts made

cnVars == <<cn, cnLast>>

VARIABLES
    un          \* two threads that each run Begin; Commit; Close on one Tx,
                \* every call under the mutex: the Tx fields and its backend
                \* handle, the state the Tx started in, each thread's position,
                \* the Tx it found at its Begin, whether the other thread
                \* stayed out of its unit, what its calls returned, the
                \* backend calls they made, and the calls in the order made

unVars == <<un>>

vars == <<txVars, dbVars, spVars, v1Vars, ccVars, wdVars, cnVars, unVars>>

\* ------------------------------------------------------------ the backend
\* tx.internal.Commit()
BackendCommit(b, bOk) ==
    IF b # "open" THEN [b |-> b, err |-> ErrTxDone]
    ELSE IF bOk THEN [b |-> "committed", err |-> ErrNil]
    ELSE [b |-> b, err |-> ErrBackend]

\* tx.internal.Rollback()
BackendRollback(b, bOk) ==
    IF b # "open" THEN [b |-> b, err |-> ErrTxDone]
    ELSE IF bOk THEN [b |-> "rolledback", err |-> ErrNil]
    ELSE [b |-> b, err |-> ErrBackend]

\* tx.internal.Exec / Queryx / Preparex / Get / Select (with or without ctx)
BackendStmt(b, bOk) ==
    IF b # "open" THEN ErrTxDone
    ELSE IF bOk THEN ErrNil
    ELSE ErrBackend

\* ------------------------------------------------------------- Tx helpers
RolledBack(t) == t.rollback

\* variant of ok: the per-level state is tested before the sticky flag
okCommittedFirst(t) ==
    IF t.current = _commit THEN ErrTxCommitted
    ELSE IF t.rollback THEN ErrTxRolledBack
    ELSE ErrNil

ok(t) ==
    IF t.rollback THEN ErrTxRolledBack
    ELSE IF t.current = _commit THEN ErrTxCommitted
    ELSE ErrNil

\* variant of push: the level is saved but current is not reset to pending
pushKeepsCurrent(t) == [t EXCEPT !.history = Append(t.history, t.current)]

push(t) ==
    [t EXCEPT !.history = Append(t.history, t.current),
              !.current = _pending]

\* variant of pop: the saved level is dropped without being restored
popKeepsCurrent(t) ==
    IF Len(t.history) = 0 THEN t
    ELSE [t EXCEPT !.history = SubSeq(t.history, 1, Len(t.history) - 1)]

pop(t) ==
    IF Len(t.history) = 0 THEN t
    ELSE [t EXCEPT !.current = t.history[Len(t.history)],
                   !.history = SubSeq(t.history, 1, Len(t.history) - 1)]

\* --------------------------------------------------------- the Tx methods
\* each yields the new Tx fields, the new backend state, the returned error
\* and the backend calls the method made
Ret(t, b, err, calls) == [tx |-> t, b |-> b, err |-> err, calls |-> calls]

\* variant of Begin: every nested Begin starts a backend transaction
TxBeginReal(t, b) ==
    IF t.rollback THEN Ret(t, b, ErrTxRolledBack, <<>>)
    ELSE Ret(push(t), b, ErrNil, <<"begin">>)

\* variant of Begin: the sticky flag is not tested
TxBeginUnguarded(t, b) == Ret(push(t), b, ErrNil, <<>>)

TxBegin(t, b) ==
    IF t.rollback THEN Ret(t, b, ErrTxRolledBack, <<>>)
    ELSE Ret(push(t), b, ErrNil, <<>>)

\* variant of BeginCtx: the context is rebound without the mismatch test
TxBeginCtxRebinds(t, b, c) ==
    IF t.rollback THEN Ret(t, b, ErrTxRolledBack, <<>>)
    ELSE Ret(push([t EXCEPT !.ctx = c]), b, ErrNil, <<>>)

TxBeginCtx(t, b, c) ==
    IF t.rollback THEN Ret(t, b, ErrTxRolledBack, <<>>)
    ELSE IF t.ctx # NoCtx /\ t.ctx # c THEN Ret(t, b, ErrBadContext, <<>>)
    ELSE Ret(push([t EXCEPT !.ctx = c]), b, ErrNil, <<>>)

\* variant of the statement methods: a backend error marks the Tx rolled back
TxStmtFailMarks(t, b, kind, bOk) ==
    IF ok(t) # ErrNil THEN Ret(t, b, ok(t), <<>>)
    ELSE IF BackendStmt(b, bOk) # ErrNil
    THEN Ret([t EXCEPT !.current = _rollback, !.rollback = TRUE], b,
             BackendStmt(b, bOk), <<kind>>)
    ELSE Ret(t, b, ErrNil, <<kind>>)

\* Exec, Query, Prepare, Get, Select: guard, then one backend call whose
\* error is returned as it is
TxStmt(t, b, kind, bOk) ==
    IF ok(t) # ErrNil THEN Ret(t, b, ok(t), <<>>)
    ELSE Ret(t, b, BackendStmt(b, bOk), <<kind>>)

\* Row: guard, then one backend call; the returned error is always nil
TxRow(t, b, bOk) ==
    IF ok(t) # ErrNil THEN Ret(t, b, ok(t), <<>>)
    ELSE Ret(t, b, ErrNil, <<"row">>)

\* variant of Commit: the backend commit is issued at every depth
TxCommitAlwaysReal(t, b, bOk) ==
    IF t.rollback THEN Ret(t, b, ErrTxRolledBack, <<>>)
    ELSE IF t.current = _commit THEN Ret(t, b, ErrTxCommitted, <<>>)
    ELSE LET r == BackendCommit(b, bOk) IN
         IF r.err # ErrNil THEN Ret(t, r.b, r.err, <<"commit">>)
         ELSE Ret([t EXCEPT !.current = _commit], r.b, ErrNil, <<"commit">>)

\* variant of Commit: Commit pops the history stack like Rollback does
TxCommitPops(t, b, bOk) ==
    IF t.rollback THEN Ret(t, b, ErrTxRolledBack, <<>>)
    ELSE IF t.current = _commit THEN Ret(t, b, ErrTxCommitted, <<>>)
    ELSE IF Len(t.history) = 0
         THEN LET r == BackendCommit(b, bOk) IN
              IF r.err # ErrNil THEN Ret(t, r.b, r.err, <<"commit">>)
              ELSE Ret(pop([t EXCEPT !.current = _commit]), r.b, ErrNil,
                       <<"commit">>)
    ELSE Ret(pop([t EXCEPT !.current = _commit]), b, ErrNil, <<>>)

TxCommit(t, b, bOk) ==
    IF t.rollback THEN Ret(t, b, ErrTxRolledBack, <<>>)
    ELSE IF t.current = _commit THEN Ret(t, b, ErrTxCommitted, <<>>)
    ELSE IF Len(t.history) = 0
         THEN LET r == BackendCommit(b, bOk) IN
              IF r.err # ErrNil THEN Ret(t, r.b, r.err, <<"commit">>)
              ELSE Ret([t EXCEPT !.current = _commit], r.b, ErrNil,
                       <<"commit">>)
    ELSE Ret([t EXCEPT !.current = _commit], b, ErrNil, <<>>)

\* variant of Rollback: the test for a committed level is missing
TxRollbackNoCommitCheck(t, b, bOk) ==
    IF t.rollback THEN Ret(t, b, ErrNil, <<>>)
    ELSE LET r == BackendRollback(b, bOk) IN
         IF r.err # ErrNil THEN Ret(t, r.b, r.err, <<"rollback">>)
         ELSE Ret(pop([t EXCEPT !.current = _rollback, !.rollback = TRUE]),
                  r.b, ErrNil, <<"rollback">>)

\* variant of Rollback: a second Rollback is rejected
TxRollbackRejects(t, b, bOk) ==
    IF t.rollback THEN Ret(t, b, ErrTxRolledBack, <<>>)
    ELSE IF t.current = _commit THEN Ret(t, b, ErrTxCommitted, <<>>)
    ELSE LET r == BackendRollback(b, bOk) IN
         IF r.err # ErrNil THEN Ret(t, r.b, r.err, <<"rollback">>)
         ELSE Ret(pop([t EXCEPT !.current = _rollback, !.rollback = TRUE]),
                  r.b, ErrNil, <<"rollback">>)

\* variant of Rollback: below the outermost level only the state is marked
TxRollbackVirtual(t, b, bOk) ==
    IF t.rollback THEN Ret(t, b, ErrNil, <<>>)
    ELSE IF t.current = _commit THEN Ret(t, b, ErrTxCommitted, <<>>)
    ELSE IF Len(t.history) > 0
    THEN Ret(pop([t EXCEPT !.current = _rollback, !.rollback = TRUE]),
             b, ErrNil, <<>>)
    ELSE LET r == BackendRollback(b, bOk) IN
         IF r.err # ErrNil THEN Ret(t, r.b, r.err, <<"rollback">>)
         ELSE Ret(pop([t EXCEPT !.current = _rollback, !.rollback = TRUE]),
                  r.b, ErrNil, <<"rollback">>)

TxRollback(t, b, bOk) ==
    IF t.rollback THEN Ret(t, b, ErrNil, <<>>)
    ELSE IF t.current = _commit THEN Ret(t, b, ErrTxCommitted, <<>>)
    ELSE LET r == BackendRollback(b, bOk) IN
         IF r.err # ErrNil THEN Ret(t, r.b, r.err, <<"rollback">>)
         ELSE Ret(pop([t EXCEPT !.current = _rollback, !.rollback = TRUE]),
                  r.b, ErrNil, <<"rollback">>)

\* variant of Close: the implicit rollback does not set the sticky flag
TxCloseNoFlag(t, b, bOk) ==
    IF t.current = _rollback \/ t.current = _commit
    THEN Ret(pop(t), b, ErrNil, <<>>)
    ELSE LET r == BackendRollback(b, bOk) IN
         IF r.err # ErrNil THEN Ret(pop(t), r.b, r.err, <<"rollback">>)
         ELSE Ret(pop([t EXCEPT !.current = _rollback]),
                  r.b, ErrNil, <<"rollback">>)

\* variant of Close: closing a resolved level also clears the sticky flag
TxCloseResets(t, b, bOk) ==
    IF t.current = _rollback \/ t.current = _commit
    THEN Ret(pop([t EXCEPT !.rollback = FALSE]), b, ErrNil, <<>>)
    ELSE LET r == BackendRollback(b, bOk) IN
         IF r.err # ErrNil THEN Ret(pop(t), r.b, r.err, <<"rollback">>)
         ELSE Ret(pop([t EXCEPT !.current = _rollback, !.rollback = TRUE]),
                  r.b, ErrNil, <<"rollback">>)

\* variant of Close: a pending level is popped without the implicit rollback
TxCloseNoRollback(t, b, bOk) == Ret(pop(t), b, ErrNil, <<>>)

\* variant of Close: closing a resolved level leaves the Tx pending again
TxCloseReopens(t, b, bOk) ==
    IF t.current = _rollback \/ t.current = _commit
    THEN Ret([pop(t) EXCEPT !.current = _pending], b, ErrNil, <<>>)
    ELSE LET r == BackendRollback(b, bOk) IN
         IF r.err # ErrNil THEN Ret(pop(t), r.b, r.err, <<"rollback">>)
         ELSE Ret(pop([t EXCEPT !.current = _rollback, !.rollback = TRUE]),
                  r.b, ErrNil, <<"rollback">>)

\* variant of Close: a failed backend rollback leaves the level on the stack
TxCloseFailKeeps(t, b, bOk) ==
    IF t.current = _rollback \/ t.current = _commit
    THEN Ret(pop(t), b, ErrNil, <<>>)
    ELSE LET r == BackendRollback(b, bOk) IN
         IF r.err # ErrNil THEN Ret(t, r.b, r.err, <<"rollback">>)
         ELSE Ret(pop([t EXCEPT !.current = _rollback, !.rollback = TRUE]),
                  r.b, ErrNil, <<"rollback">>)

TxClose(t, b, bOk) ==
    IF t.current = _rollback \/ t.current = _commit
    THEN Ret(pop(t), b, ErrNil, <<>>)
    ELSE LET r == BackendRollback(b, bOk) IN
         IF r.err # ErrNil THEN Ret(pop(t), r.b, r.err, <<"rollback">>)
         ELSE Ret(pop([t EXCEPT !.current = _rollback, !.rollback = TRUE]),
                  r.b, ErrNil, <<"rollback">>)

\* Savepoint and RollbackTo go through Tx.Exec
TxSavepoint(t, b, bOk) == TxStmt(t, b, "exec", bOk)

\* variant of RollbackTo: a partial rollback marks the Tx rolled back
TxRollbackToMarks(t, b, bOk) ==
    IF ok(t) # ErrNil THEN Ret(t, b, ok(t), <<>>)
    ELSE IF BackendStmt(b, bOk) # ErrNil
    THEN Ret(t, b, BackendStmt(b, bOk), <<"exec">>)
    ELSE Ret([t EXCEPT !.current = _rollback, !.rollback = TRUE], b, ErrNil,
             <<"exec">>)

TxRollbackTo(t, b, bOk) == TxStmt(t, b, "exec", bOk)

\* ---------------------------------------------------------- backend errors
\* an error value: its dynamic type and, for *pq.Error, its Code, kept as
\* a sequence of characters
NilErr == [type |-> "nil", code |-> <<>>]
NetErr == [type |-> "net.OpError", code |-> <<>>]
OtherErr == [type |-> "other", code |-> <<>>]
PqErr(code) == [type |-> "pq.Error", code |-> code]

PqCodes ==
    {<<"0", "8", "0", "0", "6">>, <<"3", "D", "0", "0", "0">>,
     <<"5", "3", "1", "0", "0">>, <<"5", "7", "0", "1", "4">>,
     <<"5", "8", "0", "3", "0">>, <<"X", "X", "0", "0", "0">>,
     <<"2", "3", "5", "0", "5">>, <<"4", "2", "6", "0", "1">>,
     <<"0">>, <<>>}

BackendErrs == {NilErr, NetErr, OtherErr} \cup {PqErr(c) : c \in PqCodes}

ConnFailClasses ==
    {<<"0", "8">>, <<"3", "D">>, <<"5", "3">>, <<"5", "7">>, <<"5", "8">>,
     <<"X", "X">>}

\* DidConnectionFail: the answer, or a panic when e.Code[0:2] is out of range
DidConnectionFail(e) ==
    IF e.type = "nil" THEN [panic |-> FALSE, val |-> FALSE]
    ELSE IF e.type = "net.OpError" THEN [panic |-> FALSE, val |-> TRUE]
    ELSE IF e.type = "pq.Error"
    THEN IF Len(e.code) < 2 THEN [panic |-> TRUE, val |-> FALSE]
         ELSE [panic |-> FALSE, val |-> SubSeq(e.code, 1, 2) \in ConnFailClasses]
    ELSE [panic |-> FALSE, val |-> FALSE]

\* ------------------------------------------------------------ DB methods
\* DB.check: the error is returned as it is; OnFailure is called when it is
\* set and the error is a connection failure
DBcheck(d, e) ==
    IF e = NilErr \/ ~d.onFailure
    THEN [err |-> e, called |-> 0, panic |-> FALSE]
    ELSE IF DidConnectionFail(e).panic
    THEN [err |-> e, called |-> 0, panic |-> TRUE]
    ELSE IF ~DidConnectionFail(e).val
    THEN [err |-> e, called |-> 0, panic |-> FALSE]
    ELSE [err |-> e, called |-> 1, panic |-> FALSE]

\* what a DB method yields: error, backend calls, OnFailure calls, panic,
\* the savepoint identifier it returns (0 is the empty string) and the
\* boolean it returns
DBRet(err, calls, called, panic, id, flag) ==
    [err |-> err, calls |-> calls, called |-> called, panic |-> panic,
     id |-> id, flag |-> flag]

\* Exec, Query, Row, Prepare, Get, Select, Begin, BeginCtx, Ping, Close: one
\* backend call, its error goes through check
DBForward(d, kind, e) ==
    LET c == DBcheck(d, e) IN
    DBRet(c.err, <<kind>>, c.called, c.panic, 0, FALSE)

\* Tx.Exec of src/unnamed/part_006 once ok() has passed: the backend error
\* goes through tx.check, which is db.check
TxExecCheck(d, e) == DBForward(d, "tx.exec", e)

\* Tx.Exec of src/tx.go once ok() has passed: the backend error is returned
\* as it is and check is not called
TxExecNoCheck(d, e) == DBRet(e, <<"tx.exec">>, 0, FALSE, 0, FALSE)

\* a caller asking DidConnectionFail about an error it was handed
DBClassify(e) ==
    DBRet(e, <<>>, 0, DidConnectionFail(e).panic, 0, DidConnectionFail(e).val)

DBCommitOp(d) == DBRet(NilErr, <<>>, 0, FALSE, 0, FALSE)

DBRollbackOp(d) == DBRet(NilErr, <<>>, 0, FALSE, 0, FALSE)

DBRolledBackOp(d) == DBRet(NilErr, <<>>, 0, FALSE, 0, FALSE)

\* GenerateSavepointID: "point_" and a fresh UUID in hex, never empty
GenerateSavepointID(n) == n + 1

\* variant of DB.Savepoint: the savepoint statement is sent to the backend
DBSavepointExec(d, n) ==
    DBRet(NilErr, <<"exec">>, 0, FALSE, GenerateSavepointID(n), FALSE)

DBSavepointOp(d, n) ==
    DBRet(NilErr, <<>>, 0, FALSE, GenerateSavepointID(n), FALSE)

DBRollbackToOp(d, id) == DBRet(NilErr, <<>>, 0, FALSE, 0, FALSE)

\* ------------------------------------------------------ savepoints on a Tx
\* the statements Savepoint and RollbackTo hand to Tx.Exec
SavepointStmt(id) == [cmd |-> "SAVEPOINT", id |-> id]

RollbackToStmt(id) == [cmd |-> "ROLLBACK TO SAVEPOINT", id |-> id]

InsertStmt(row) == [cmd |-> "INSERT", id |-> row]

CountStmt == [cmd |-> "COUNT", id |-> 0]

\* the backend transaction as a statement log with named marks
MarkIdx(marks, id) == {k \in 1..Len(marks) : marks[k].id = id}

MaxOf(S) == CHOOSE k \in S : \A j \in S : j <= k

BackendSQL(rows, marks, stmt) ==
    IF stmt.cmd = "INSERT"
    THEN [rows |-> Append(rows, stmt.id), marks |-> marks, err |-> ErrNil]
    ELSE IF stmt.cmd = "SAVEPOINT"
    THEN [rows |-> rows,
          marks |-> Append(marks, [id |-> stmt.id, at |-> Len(rows)]),
          err |-> ErrNil]
    ELSE IF stmt.cmd = "ROLLBACK TO SAVEPOINT"
    THEN IF MarkIdx(marks, stmt.id) = {}
         THEN [rows |-> rows, marks |-> marks, err |-> ErrBackend]
         ELSE LET k == MaxOf(MarkIdx(marks, stmt.id)) IN
              [rows |-> SubSeq(rows, 1, marks[k].at),
               marks |-> SubSeq(marks, 1, k), err |-> ErrNil]
    ELSE [rows |-> rows, marks |-> marks, err |-> ErrNil]

\* Tx.Exec of one statement against that backend: the guard, then the
\* statement, which fails when the backend call fails
TxExecSQL(t, b, rows, marks, stmt, bOk) ==
    LET r == TxStmt(t, b, "exec", bOk) IN
    IF r.err # ErrNil
    THEN [rows |-> rows, marks |-> marks, err |-> r.err]
    ELSE BackendSQL(rows, marks, stmt)

\* variant of Tx.Savepoint: the identifier handed back is generated anew
TxSavepointSQLOtherId(t, b, rows, marks, n, bOk) ==
    LET id == GenerateSavepointID(n)
        r == TxExecSQL(t, b, rows, marks, SavepointStmt(id), bOk)
    IN  [rows |-> r.rows, marks |-> r.marks, err |-> r.err,
         id |-> IF r.err # ErrNil THEN 0 ELSE GenerateSavepointID(id)]

\* Tx.Savepoint: the identifier is generated, sent, and handed back, or the
\* empty identifier with the error
TxSavepointSQL(t, b, rows, marks, n, bOk) ==
    LET id == GenerateSavepointID(n)
        r == TxExecSQL(t, b, rows, marks, SavepointStmt(id), bOk)
    IN  [rows |-> r.rows, marks |-> r.marks, err |-> r.err,
         id |-> IF r.err # ErrNil THEN 0 ELSE id]

\* Tx.RollbackTo
TxRollbackToSQL(t, b, rows, marks, id, bOk) ==
    TxExecSQL(t, b, rows, marks, RollbackToStmt(id), bOk)

\* ------------------------------------ the Tx that records failures (part_007)
_failed == 3
ErrTxFailed == "ErrTxFailed"
ErrAlreadyCommitted == "ErrAlreadyCommitted"

\* the new fields, the returned error, and whether the call returns at all
V1Ret(t, err, hung) == [tx |-> t, err |-> err, hung |-> hung]

V1Begin(t) ==
    IF t.rollback THEN V1Ret(t, ErrTxRolledBack, FALSE)
    ELSE V1Ret(push(t), ErrNil, FALSE)

V1BeginCtx(t, c) ==
    IF t.rollback THEN V1Ret(t, ErrTxRolledBack, FALSE)
    ELSE IF t.ctx # NoCtx /\ t.ctx # c
    THEN V1Ret([t EXCEPT !.failure = ErrBadContext], ErrBadContext, FALSE)
    ELSE V1Ret(push([t EXCEPT !.ctx = c]), ErrNil, FALSE)

\* the test every statement method makes before it reaches the backend
V1ok(t) ==
    IF t.failure # ErrNil THEN ErrTxFailed
    ELSE IF t.rollback THEN ErrTxRolledBack
    ELSE ErrNil

\* Exec, Query, Row, Prepare, Get, Select: no lock is taken
V1Stmt(t, kind, bOk) ==
    IF V1ok(t) # ErrNil THEN V1Ret(t, V1ok(t), FALSE)
    ELSE IF kind = "Row" THEN V1Ret(t, ErrNil, FALSE)
    ELSE V1Ret(t, BackendStmt(t.b, bOk), FALSE)

\* Commit locks the mutex and defers a second Lock: the body runs, and the
\* deferred Lock then waits for the mutex the call itself holds
V1Commit(t, bOk) ==
    LET held == [t EXCEPT !.locked = TRUE] IN
    IF t.rollback \/ t.current = _rollback
    THEN V1Ret(held, ErrTxRolledBack, TRUE)
    ELSE IF Len(t.history) = 0 /\ BackendCommit(t.b, bOk).err # ErrNil
    THEN V1Ret([held EXCEPT !.failure = BackendCommit(t.b, bOk).err,
                            !.current = _failed],
               BackendCommit(t.b, bOk).err, TRUE)
    ELSE V1Ret([held EXCEPT !.current = _commit,
                            !.b = IF Len(t.history) = 0
                                  THEN BackendCommit(t.b, bOk).b ELSE t.b],
               ErrNil, TRUE)

V1Rollback(t, bOk) ==
    IF t.rollback THEN V1Ret(t, ErrTxRolledBack, FALSE)
    ELSE IF t.current = _commit THEN V1Ret(t, ErrAlreadyCommitted, FALSE)
    ELSE IF BackendRollback(t.b, bOk).err # ErrNil
    THEN V1Ret(pop([t EXCEPT !.failure = BackendRollback(t.b, bOk).err]),
               BackendRollback(t.b, bOk).err, FALSE)
    ELSE V1Ret(pop([t EXCEPT !.current = _rollback, !.rollback = TRUE,
                             !.b = BackendRollback(t.b, bOk).b]),
               ErrNil, FALSE)

V1Close(t, bOk) ==
    IF t.rollback \/ t.current = _commit THEN V1Ret(pop(t), ErrNil, FALSE)
    ELSE IF BackendRollback(t.b, bOk).err # ErrNil
    THEN V1Ret(pop([t EXCEPT !.failure = BackendRollback(t.b, bOk).err]),
               BackendRollback(t.b, bOk).err, FALSE)
    ELSE V1Ret(pop([t EXCEPT !.current = _rollback, !.rollback = TRUE,
                             !.b = BackendRollback(t.b, bOk).b]),
               ErrNil, FALSE)

\* ------------------------------------------------- the transaction timer
\* TxTimeout as the package declares it: all zero
TxTimeoutZero == [Enabled |-> FALSE, Duration |-> 0, Panic |-> FALSE]

EnableTimeouts(cfg, dur, panic) ==
    IF dur = 0 THEN cfg
    ELSE [Enabled |-> TRUE, Duration |-> dur, Panic |-> panic]

DisableTimeouts(cfg) == [Enabled |-> FALSE, Duration |-> 0, Panic |-> FALSE]

\* newTxTimer: no timer unless timeouts are enabled with a duration, else a
\* time.AfterFunc timer that is pending
newTxTimer(cfg) ==
    IF ~cfg.Enabled \/ cfg.Duration = 0
    THEN [timer |-> "nil", tstate |-> "none"]
    ELSE [timer |-> "set", tstate |-> "pending"]

\* variant of txTimedOut: TxTimeout.Enabled is not looked at
txTimedOutAlways(cfg) == "reporting"

\* txTimedOut, first part: nothing happens when timeouts are disabled
txTimedOut(cfg) == IF ~cfg.Enabled THEN "fired" ELSE "reporting"

\* txTimedOut, second part: panic or a line on stderr
txReport(cfg) == IF cfg.Panic THEN "panic" ELSE "stderr"

\* what a Tx method with a timer yields: the Tx with its timer, the error,
\* and whether the call returns
WRet(w, err, returned) == [w |-> w, err |-> err, returned |-> returned]

\* txTimer.stop: Timer.Stop() is true for a pending timer; for one that has
\* expired it is false and stop then receives from the timer's channel,
\* which an AfterFunc timer does not have
stop(w) ==
    IF w.tstate = "pending"
    THEN [w |-> [w EXCEPT !.tstate = "stopped"], returned |-> TRUE]
    ELSE [w |-> w, returned |-> FALSE]

\* variant of pop: the timer is dropped without being stopped
WDpopNoStop(w) ==
    IF Len(w.tx.history) = 0
    THEN [w |-> [w EXCEPT !.timer = "nil"], returned |-> TRUE]
    ELSE [w |-> [w EXCEPT !.tx = pop(w.tx)], returned |-> TRUE]

\* pop of src/unnamed/part_006: on an empty history the timer is stopped
\* and forgotten
WDpop(w) ==
    IF Len(w.tx.history) = 0
    THEN IF w.timer # "nil"
         THEN IF stop(w).returned
              THEN [w |-> [stop(w).w EXCEPT !.timer = "nil"], returned |-> TRUE]
              ELSE [w |-> w, returned |-> FALSE]
         ELSE [w |-> w, returned |-> TRUE]
    ELSE [w |-> [w EXCEPT !.tx = pop(w.tx)], returned |-> TRUE]

\* Begin and Commit do not touch the timer
WDTxBegin(w) ==
    WRet([w EXCEPT !.tx = TxBegin(w.tx, w.b).tx], TxBegin(w.tx, w.b).err, TRUE)

WDTxCommit(w, bOk) ==
    LET r == TxCommit(w.tx, w.b, bOk) IN
    WRet([w EXCEPT !.tx = r.tx, !.b = r.b], r.err, TRUE)

WDTxRollback(w, bOk) ==
    IF w.tx.rollback THEN WRet(w, ErrNil, TRUE)
    ELSE IF w.tx.current = _commit THEN WRet(w, ErrTxCommitted, TRUE)
    ELSE LET r == BackendRollback(w.b, bOk) IN
         IF r.err # ErrNil THEN WRet(w, r.err, TRUE)
         ELSE LET p == WDpop([w EXCEPT !.tx.current = _rollback,
                                       !.tx.rollback = TRUE, !.b = r.b])
              IN  WRet(p.w, ErrNil, p.returned)

WDTxClose(w, bOk) ==
    IF w.tx.current = _rollback \/ w.tx.current = _commit
    THEN WRet(WDpop(w).w, ErrNil, WDpop(w).returned)
    ELSE LET r == BackendRollback(w.b, bOk) IN
         IF r.err # ErrNil
         THEN WRet(WDpop(w).w, r.err, WDpop(w).returned)
         ELSE LET p == WDpop([w EXCEPT !.tx.current = _rollback,
                                       !.tx.rollback = TRUE, !.b = r.b])
              IN  WRet(p.w, ErrNil, p.returned)

\* DB.Begin / DB.BeginCtx: the Tx and, with it, its timer
WDNewTx(cfg, c) ==
    [tx |-> [current |-> _pending, history |-> <<>>, rollback |-> FALSE,
             ctx |-> c],
     b |-> "open", timer |-> newTxTimer(cfg).timer,
     tstate |-> newTxTimer(cfg).tstate]

\* ------------------------------------------------------------------ Init
\* the Tx as DB.Begin / DB.BeginCtx returns it
DBBegin(c) ==
    [current |-> _pending, history |-> <<>>, rollback |-> FALSE, ctx |-> c]

\* NewDB, with or without an OnFailure callback
NewDB(fn) == [onFailure |-> fn, open |-> TRUE]

InitDBVars(fn) ==
    /\ db = NewDB(fn)
    /\ dbLast = [op |-> "NewDB", arg |-> 0]
                   @@ DBRet(NilErr, <<>>, 0, FALSE, 0, FALSE)
    /\ nFailure = 0
    /\ idSeq = 0
    /\ dbOps = 0

InitSpVars ==
    /\ sp = [rows |-> <<>>, marks |-> <<>>, snaps |-> <<>>, idSeq |-> 0,
             rowSeq |-> 0, ops |-> 0]
    /\ spLast = [op |-> "none", arg |-> 0, err |-> ErrNil, id |-> 0,
                 count |-> 0, prevOp |-> "none", prevArg |-> 0,
                 prevErr |-> ErrNil]

\* the Tx handed out by DB.Begin (no context) or DB.BeginCtx
NewV1(c) ==
    [current |-> _pending, history |-> <<>>, rollback |-> FALSE,
     failure |-> ErrNil, ctx |-> c, locked |-> FALSE, b |-> "open"]

InitV1Vars(c) ==
    /\ v1 = [tx |-> NewV1(c), ops |-> 0]
    /\ v1Last = [op |-> "none", arg |-> NoCtx, err |-> ErrNil, hung |-> FALSE,
                 pre |-> NewV1(c)]

Threads == {1, 2}

\* the Tx states two threads may find: just begun, one level down, and
\* rolled back by a nested Rollback
ConcStarts ==
    {[tx |-> [current |-> _pending, history |-> <<>>, rollback |-> FALSE,
              ctx |-> NoCtx], b |-> "open"],
     [tx |-> [current |-> _pending, history |-> <<_pending>>,
              rollback |-> FALSE, ctx |-> NoCtx], b |-> "open"],
     [tx |-> [current |-> _commit, history |-> <<_pending>>,
              rollback |-> FALSE, ctx |-> NoCtx], b |-> "open"],
     [tx |-> [current |-> _pending, history |-> <<>>, rollback |-> TRUE,
              ctx |-> NoCtx], b |-> "rolledback"]}

InitCcVars(s, lock) ==
    /\ cc = [tx |-> s.tx, b |-> s.b, useLock |-> lock, mu |-> 0,
             len0 |-> Len(s.tx.history), start |-> s.tx]
    /\ th = [i \in Threads |->
               [pc |-> "start", h |-> <<>>, c |-> _pending, err |-> ErrNil]]

InitWdVars ==
    /\ wd = [cfg |-> TxTimeoutZero, exists |-> FALSE, w |-> WDNewTx(TxTimeoutZero, NoCtx),
             nArmed |-> 0, nStderr |-> 0, nPanic |-> 0, crashed |-> FALSE,
             unwound |-> FALSE, expEnabled |-> FALSE, repPanic |-> FALSE,
             ops |-> 0]
    /\ wdLast = [op |-> "none", dur |-> 0, err |-> ErrNil, returned |-> TRUE,
                 pre |-> wd]

\* ------------------------------------------------------------ connecting
\* a data source is well-formed and reachable, well-formed and unreachable,
\* or malformed (unknown driver, unparsable DSN)
Sources == {"ok", "unreachable", "malformed"}

ConfigErr == [type |-> "config", code |-> <<>>]
ClosedErr == [type |-> "sql: database is closed", code |-> <<>>]

\* what the backend answers for a data source that cannot be reached: the
\* dial fails, or the server refuses the database or the connection
UnreachableErrs ==
    {NetErr, PqErr(<<"3", "D", "0", "0", "0">>),
     PqErr(<<"0", "8", "0", "0", "6">>)}

\* dial: sqlx.Open only validates the driver and the DSN
dial(src) ==
    IF src = "malformed" THEN [db |-> "nil", err |-> ConfigErr]
    ELSE [db |-> "open", err |-> NilErr]

\* the loop of open over the ticks of the retry ticker: pings[i] is the
\* answer to the ping made at tick i; the ticker delivers Len(pings) ticks
\* unless the loop leaves before
RECURSIVE openLoop(_, _, _, _, _)
openLoop(src, pings, i, h, err) ==
    IF i > Len(pings)
    THEN [db |-> h, err |-> err, dials |-> i - 1, pinged |-> i - 1]
    ELSE IF dial(src).err # NilErr
    THEN [db |-> "nil", err |-> dial(src).err, dials |-> i, pinged |-> i - 1,
          returned |-> TRUE]
    ELSE IF pings[i] # NilErr
    THEN openLoop(src, pings, i + 1, "closed", pings[i])
    ELSE [db |-> dial(src).db, err |-> NilErr, dials |-> i, pinged |-> i]

\* variant of open: the handle of the last attempt is returned whatever the
\* last ping said
openNoFinalCheck(src, pings) ==
    LET l == openLoop(src, pings, 1, "nil", NilErr) IN
    IF "returned" \in DOMAIN l
    THEN [db |-> "nil", err |-> l.err, dials |-> l.dials, pinged |-> l.pinged]
    ELSE [db |-> l.db, err |-> NilErr, dials |-> l.dials,
          pinged |-> l.pinged]

open(src, pings) ==
    LET l == openLoop(src, pings, 1, "nil", NilErr) IN
    IF "returned" \in DOMAIN l
    THEN [db |-> "nil", err |-> l.err, dials |-> l.dials, pinged |-> l.pinged]
    ELSE IF l.err # NilErr
    THEN [db |-> "nil", err |-> l.err, dials |-> l.dials, pinged |-> l.pinged]
    ELSE [db |-> l.db, err |-> NilErr, dials |-> l.dials, pinged |-> l.pinged]

\* what Connect and ConnectUnchecked yield: whether a DB is returned, the
\* DB (NewDB with no OnFailure, its handle open or closed), the error, and
\* the dial and ping attempts made
CnRet(o) ==
    [has |-> o.err = NilErr,
     db |-> [NewDB(FALSE) EXCEPT !.open = (o.db = "open")],
     err |-> o.err, dials |-> o.dials, pinged |-> o.pinged]

Connect(src, pings) == CnRet(open(src, pings))

\* variant of ConnectUnchecked: the connection is pinged like Connect does
ConnectUncheckedPings(src, pings) == CnRet(open(src, pings))

ConnectUnchecked(src, pings) ==
    CnRet([db |-> dial(src).db, err |-> dial(src).err, dials |-> 1,
           pinged |-> 0])

\* the ping answers a data source can give over n ticks: an unreachable
\* one fails every time, a reachable one may fail before it answers
PingScripts(src) ==
    IF src = "unreachable"
    THEN {[i \in 1..n |-> e] : n \in 1..MaxTicks, e \in UnreachableErrs}
    ELSE {[i \in 1..n |-> IF i = okAt THEN NilErr ELSE NetErr] :
             n \in 1..MaxTicks, okAt \in 0..MaxTicks}

\* what the backend answers an Exec on the DB that was built
ExecOutcomes(src, d) ==
    IF ~d.open THEN {ClosedErr}
    ELSE IF src = "unreachable" THEN UnreachableErrs
    ELSE {NilErr, NetErr, PqErr(<<"2", "3", "5", "0", "5">>)}

InitCnVars ==
    /\ cn = [src |-> "ok", has |-> FALSE, db |-> NewDB(FALSE), via |-> "none",
             execs |-> 0, nFailure |-> 0, ops |-> 0]
    /\ cnLast = [op |-> "none", err |-> NilErr, dials |-> 0, pinged |-> 0,
                 called |-> 0, pings |-> <<>>]

\* the states a Tx whose sticky flag is unset can be in, up to one level
\* down: each level is pending or committed, and the backend transaction is
\* committed exactly when the outermost level is
UnitStarts ==
    {[tx |-> [current |-> c, history |-> h, rollback |-> FALSE,
              ctx |-> NoCtx],
      b |-> IF (IF h = <<>> THEN c ELSE h[1]) = _commit
            THEN "committed" ELSE "open"] :
        c \in {_pending, _commit},
        h \in {<<>>, <<_pending>>, <<_commit>>}}

InitUnVars(s) ==
    un = [tx |-> s.tx, b |-> s.b, start |-> s,
          pc |-> [i \in Threads |-> 0],
          snap |-> [i \in Threads |-> s.tx],
          alone |-> [i \in Threads |-> TRUE],
          errs |-> [i \in Threads |-> <<>>],
          calls |-> [i \in Threads |-> <<>>],
          order |-> <<>>, ops |-> <<>>]

InitTxVars(c) ==
    /\ tx = DBBegin(c)
    /\ bstate = "open"
    /\ last = [op |-> "DBBegin", err |-> ErrNil, calls |-> <<>>,
               pre |-> DBBegin(NoCtx), preB |-> "open", preDepth |-> 0,
               afterResolve |-> FALSE, arg |-> NoCtx, preSealed |-> FALSE]
    /\ depth = 0
    /\ overClosed = FALSE
    /\ script = "open"
    /\ nCommit = 0
    /\ nRollback = 0
    /\ rbFailed = FALSE
    /\ cmFailed = FALSE
    /\ sealed = FALSE
    /\ ended = FALSE
    /\ nBegin = 1
    /\ steps = 0
    /\ stmts = 0

Init ==
    /\ \E c \in Ctxs \cup {NoCtx} : InitTxVars(c)
    /\ InitDBVars(FALSE)
    /\ InitSpVars
    /\ InitV1Vars(NoCtx)
    /\ InitCcVars(CHOOSE s \in ConcStarts : s.tx.history = <<>> /\ ~s.tx.rollback,
                  TRUE)
    /\ InitWdVars
    /\ InitCnVars
    /\ InitUnVars(CHOOSE s \in UnitStarts : s.tx.history = <<>> /\ s.b = "open")

\* --------------------------------------------------------------- actions
Count(calls, k) == Cardinality({i \in 1..Len(calls) : calls[i] = k})

\* the calling pattern after method op has returned r:
\*   "open"      only Begin/BeginCtx (and statements) so far
\*   "autoClose" Begins, then only Closes
\*   "commit"    Begins, then Commit/Close pairs, a Commit came last
\*   "close"     Begins, then Commit/Close pairs, a Close came last
\*   "off"       anything else, or a backend commit/rollback failed
NextScript(op, r) ==
    IF script = "off" \/ (r.err = ErrBackend /\ op \in {"Commit", "Close"})
    THEN "off"
    ELSE IF op \in {"Begin", "BeginCtx"}
    THEN IF script = "open" /\ r.err = ErrNil THEN "open" ELSE "off"
    ELSE IF op \in StmtOps \cup SavepointOps
    THEN IF script = "open" THEN "open" ELSE "off"
    ELSE IF op = "Close"
    THEN IF depth < 0 THEN "off"
         ELSE IF script \in {"open", "autoClose"} THEN "autoClose"
         ELSE IF script = "commit" THEN "close"
         ELSE "off"
    ELSE IF op = "Commit"
    THEN IF depth >= 0 /\ script \in {"open", "close"} THEN "commit"
         ELSE "off"
    ELSE "off"

CallArg(op, arg, r) ==
    /\ IF op \in StmtOps \cup SavepointOps
       THEN stmts' = stmts + 1 /\ steps' = steps
       ELSE steps' = steps + 1 /\ stmts' = stmts
    /\ tx' = r.tx
    /\ bstate' = r.b
    /\ last' = [op |-> op, err |-> r.err, calls |-> r.calls,
                pre |-> tx, preB |-> bstate, preDepth |-> depth,
                afterResolve |-> (last.op \in {"Commit", "Rollback"}
                                    /\ last.err = ErrNil),
                arg |-> arg, preSealed |-> sealed]
    /\ depth' = IF op \in {"Begin", "BeginCtx"} /\ r.err = ErrNil
                THEN depth + 1
                ELSE IF op = "Close" THEN depth - 1 ELSE depth
    /\ overClosed' = (overClosed \/ (op = "Close" /\ depth < 0))
    /\ script' = NextScript(op, r)
    /\ nCommit' = nCommit + Count(r.calls, "commit")
    /\ nRollback' = nRollback + Count(r.calls, "rollback")
    /\ rbFailed' = (rbFailed \/ (Count(r.calls, "rollback") > 0
                                   /\ r.err = ErrBackend))
    /\ cmFailed' = (cmFailed \/ (Count(r.calls, "commit") > 0
                                   /\ r.err = ErrBackend))
    /\ sealed' = IF op = "Close" /\ last.op = "Commit" /\ last.err = ErrNil
                     /\ last.calls = <<"commit">>
                  THEN TRUE
                  ELSE IF op \in {"Begin", "BeginCtx"} THEN FALSE
                  ELSE sealed
    /\ ended' = (ended \/ (op = "Close" /\ depth = 0))
    /\ nBegin' = nBegin + Count(r.calls, "begin")
    /\ UNCHANGED <<dbVars, spVars, v1Vars, ccVars, wdVars, cnVars, unVars>>

Call(op, r) == CallArg(op, NoCtx, r)

Begin ==
    /\ steps < MaxOps
    /\ Len(tx.history) < MaxDepth
    /\ Call("Begin", TxBegin(tx, bstate))

BeginCtx ==
    /\ steps < MaxOps
    /\ Len(tx.history) < MaxDepth
    /\ \E c \in Ctxs \cup {NoCtx} :
          CallArg("BeginCtx", c, TxBeginCtx(tx, bstate, c))

Exec ==
    /\ stmts < MaxStmts
    /\ \E bOk \in BOOLEAN : Call("Exec", TxStmt(tx, bstate, "exec", bOk))

Query ==
    /\ stmts < MaxStmts
    /\ \E bOk \in BOOLEAN : Call("Query", TxStmt(tx, bstate, "query", bOk))

Row ==
    /\ stmts < MaxStmts
    /\ \E bOk \in BOOLEAN : Call("Row", TxRow(tx, bstate, bOk))

Prepare ==
    /\ stmts < MaxStmts
    /\ \E bOk \in BOOLEAN : Call("Prepare", TxStmt(tx, bstate, "prepare", bOk))

Get ==
    /\ stmts < MaxStmts
    /\ \E bOk \in BOOLEAN : Call("Get", TxStmt(tx, bstate, "get", bOk))

Select ==
    /\ stmts < MaxStmts
    /\ \E bOk \in BOOLEAN : Call("Select", TxStmt(tx, bstate, "select", bOk))

Savepoint ==
    /\ stmts < MaxStmts
    /\ \E bOk \in BOOLEAN : Call("Savepoint", TxSavepoint(tx, bstate, bOk))

RollbackTo ==
    /\ stmts < MaxStmts
    /\ \E bOk \in BOOLEAN : Call("RollbackTo", TxRollbackTo(tx, bstate, bOk))

Commit ==
    /\ steps < MaxOps
    /\ \E bOk \in BOOLEAN : Call("Commit", TxCommit(tx, bstate, bOk))

Rollback ==
    /\ steps < MaxOps
    /\ \E bOk \in BOOLEAN : Call("Rollback", TxRollback(tx, bstate, bOk))

Close ==
    /\ steps < MaxOps
    /\ depth > -1 - MaxExtraClose
    /\ \E bOk \in BOOLEAN : Call("Close", TxClose(tx, bstate, bOk))

Next ==
    \/ Begin
    \/ BeginCtx
    \/ Exec
    \/ Query
    \/ Row
    \/ Prepare
    \/ Get
    \/ Select
    \/ Savepoint
    \/ RollbackTo
    \/ Commit
    \/ Rollback
    \/ Close

Spec == Init /\ [][Next]_vars

\* ------------------------------------------------------- the bare DB
DBCall(op, arg, r) ==
    /\ dbOps < MaxDBOps
    /\ dbOps' = dbOps + 1
    /\ dbLast' = [op |-> op, arg |-> arg] @@ r
    /\ nFailure' = nFailure + r.called
    /\ idSeq' = IF r.id # 0 THEN r.id ELSE idSeq
    /\ db' = IF op = "Close" THEN [db EXCEPT !.open = FALSE] ELSE db
    /\ UNCHANGED <<txVars, spVars, v1Vars, ccVars, wdVars, cnVars, unVars>>

\* a call on a closed pool cannot succeed
DBOutcomes == IF db.open THEN BackendErrs ELSE BackendErrs \ {NilErr}

DBBeginTx ==
    /\ \E e \in DBOutcomes : DBCall("Begin", 0, DBForward(db, "begin", e))

DBExec ==
    /\ \E e \in DBOutcomes : DBCall("Exec", 0, DBForward(db, "exec", e))

DBQuery ==
    /\ \E e \in DBOutcomes : DBCall("Query", 0, DBForward(db, "query", e))

DBRow ==
    /\ \E e \in DBOutcomes : DBCall("Row", 0, DBForward(db, "row", e))

DBPrepare ==
    /\ \E e \in DBOutcomes : DBCall("Prepare", 0, DBForward(db, "prepare", e))

DBGet ==
    /\ \E e \in DBOutcomes : DBCall("Get", 0, DBForward(db, "get", e))

DBSelect ==
    /\ \E e \in DBOutcomes : DBCall("Select", 0, DBForward(db, "select", e))

DBClose ==
    /\ \E e \in BackendErrs : DBCall("Close", 0, DBForward(db, "close", e))

DBCommit ==
    /\ DBCall("Commit", 0, DBCommitOp(db))

DBRollback ==
    /\ DBCall("Rollback", 0, DBRollbackOp(db))

DBRolledBack ==
    /\ DBCall("RolledBack", 0, DBRolledBackOp(db))

DBSavepoint ==
    /\ DBCall("Savepoint", 0, DBSavepointOp(db, idSeq))

DBRollbackTo ==
    /\ \E id \in 0..(idSeq + 1) : DBCall("RollbackTo", id, DBRollbackToOp(db, id))

DBTxExecChecked ==
    /\ \E e \in BackendErrs : DBCall("Tx.Exec", 0, TxExecCheck(db, e))

DBTxExecUnchecked ==
    /\ \E e \in BackendErrs : DBCall("Tx.Exec", 0, TxExecNoCheck(db, e))

DBDidConnectionFail ==
    /\ \E e \in BackendErrs : DBCall("DidConnectionFail", 0, DBClassify(e))

NextDB ==
    \/ DBTxExecChecked
    \/ DBTxExecUnchecked
    \/ DBDidConnectionFail
    \/ DBBeginTx
    \/ DBExec
    \/ DBQuery
    \/ DBRow
    \/ DBPrepare
    \/ DBGet
    \/ DBSelect
    \/ DBClose
    \/ DBCommit
    \/ DBRollback
    \/ DBRolledBack
    \/ DBSavepoint
    \/ DBRollbackTo

InitDB ==
    /\ InitTxVars(NoCtx)
    /\ \E fn \in BOOLEAN : InitDBVars(fn)
    /\ InitSpVars
    /\ InitV1Vars(NoCtx)
    /\ InitCcVars(CHOOSE s \in ConcStarts : s.tx.history = <<>> /\ ~s.tx.rollback,
                  TRUE)
    /\ InitWdVars
    /\ InitCnVars
    /\ InitUnVars(CHOOSE s \in UnitStarts : s.tx.history = <<>> /\ s.b = "open")

SpecDB == InitDB /\ [][NextDB]_vars

\* ------------------------------------------------ the savepoint scenario
\* one pending Tx; the caller inserts rows, takes savepoints, rolls back to
\* identifiers it was handed (or to one it was never handed) and counts
SpCall(op, arg, r, id, count) ==
    /\ sp.ops < MaxSpOps
    /\ sp' = [rows |-> r.rows, marks |-> r.marks,
              snaps |-> IF op = "Savepoint" /\ id # 0
                        THEN Append(sp.snaps, [id |-> id, rows |-> sp.rows])
                        ELSE sp.snaps,
              idSeq |-> IF op = "Savepoint" THEN GenerateSavepointID(sp.idSeq)
                        ELSE sp.idSeq,
              rowSeq |-> IF op = "Insert" THEN sp.rowSeq + 1 ELSE sp.rowSeq,
              ops |-> sp.ops + 1]
    /\ spLast' = [op |-> op, arg |-> arg, err |-> r.err, id |-> id,
                  count |-> count, prevOp |-> spLast.op,
                  prevArg |-> spLast.arg, prevErr |-> spLast.err]
    /\ UNCHANGED <<txVars, dbVars, v1Vars, ccVars, wdVars, cnVars, unVars>>

SpInsert ==
    /\ \E bOk \in BOOLEAN :
          SpCall("Insert", 0,
                 TxExecSQL(tx, bstate, sp.rows, sp.marks,
                           InsertStmt(sp.rowSeq + 1), bOk), 0, 0)

SpSavepoint ==
    /\ \E bOk \in BOOLEAN :
          LET r == TxSavepointSQL(tx, bstate, sp.rows, sp.marks, sp.idSeq, bOk)
          IN  SpCall("Savepoint", 0, r, r.id, 0)

SpRollbackTo ==
    /\ \E bOk \in BOOLEAN, id \in 1..(sp.idSeq + 1) :
          SpCall("RollbackTo", id,
                 TxRollbackToSQL(tx, bstate, sp.rows, sp.marks, id, bOk), 0, 0)

SpCount ==
    /\ \E bOk \in BOOLEAN :
          LET r == TxExecSQL(tx, bstate, sp.rows, sp.marks, CountStmt, bOk)
          IN  SpCall("Count", 0, r, 0,
                     IF r.err = ErrNil THEN Len(sp.rows) ELSE 0)

NextSP ==
    \/ SpInsert
    \/ SpSavepoint
    \/ SpRollbackTo
    \/ SpCount

InitSP ==
    /\ InitTxVars(NoCtx)
    /\ InitDBVars(FALSE)
    /\ InitSpVars
    /\ InitV1Vars(NoCtx)
    /\ InitCcVars(CHOOSE s \in ConcStarts : s.tx.history = <<>> /\ ~s.tx.rollback,
                  TRUE)
    /\ InitWdVars
    /\ InitCnVars
    /\ InitUnVars(CHOOSE s \in UnitStarts : s.tx.history = <<>> /\ s.b = "open")

SpecSP == InitSP /\ [][NextSP]_vars

TypeOK ==
    /\ tx.current \in {_pending, _rollback, _commit}
    /\ tx.rollback \in BOOLEAN
    /\ Len(tx.history) <= MaxDepth
    /\ bstate \in {"open", "committed", "rolledback"}

\* ---------------------------------------------------------------- claims

\* C1: once the sticky flag is set, RolledBack() is true and Begin, BeginCtx,
\* every statement call, Savepoint, RollbackTo and Commit return
\* ErrTxRolledBack without a backend call, whatever current and history hold.
C1_RolledBackRejects ==
    (RolledBack(last.pre) /\ last.op \in GuardedOps)
        => (last.err = ErrTxRolledBack /\ last.calls = <<>>)

C1_Witness ==
    /\ RolledBack(last.pre)
    /\ last.op = "Exec"
    /\ last.pre.current = _commit
    /\ Len(last.pre.history) > 0
    /\ last.err = ErrTxRolledBack

\* C2: the sticky flag is monotone: no method call sets it back to false.
C2_StickyMonotone == [][tx.rollback => tx'.rollback]_vars

C2_Witness ==
    /\ last.pre.rollback
    /\ last.op = "Close"
    /\ Len(last.pre.history) > 0
    /\ tx.rollback

\* C3 (as amended): a backend commit is issued only by a Commit that finds
\* the history stack empty, the sticky flag unset and the level not
\* committed, and then the depth is 0 or less; a Commit at depth > 0 never
\* issues one.
C3_CommitOnlyOutermost ==
    /\ Count(last.calls, "commit") > 0 =>
          /\ last.op = "Commit"
          /\ Len(last.pre.history) = 0
          /\ last.preDepth <= 0
          /\ ~last.pre.rollback
          /\ last.pre.current # _commit
    /\ (last.op = "Commit" /\ last.preDepth > 0) => last.calls = <<>>

C3_Witness ==
    /\ last.op = "Commit"
    /\ last.preDepth > 0
    /\ last.err = ErrNil
    /\ tx.current = _commit

\* C3 as stated: a backend commit is issued only by a Commit called at
\* depth 0 with an empty history stack.
C3_Original ==
    Count(last.calls, "commit") > 0 =>
        /\ last.op = "Commit"
        /\ Len(last.pre.history) = 0
        /\ last.preDepth = 0

\* C4: after DB.Begin and d nested Begins, when every level, innermost
\* first, calls Commit and then Close and no backend call fails, every
\* Commit and Close returns nil, no backend rollback is issued, RolledBack()
\* stays false, and exactly one backend commit is issued, by the outermost
\* Commit.
C4_NestedCommitClose ==
    script \in {"commit", "close"} =>
        /\ last.err = ErrNil
        /\ nRollback = 0
        /\ ~RolledBack(tx)
        /\ nCommit = (IF depth < 0 \/ (depth = 0 /\ script = "commit")
                      THEN 1 ELSE 0)

C4_Witness ==
    /\ script = "close"
    /\ depth = -1
    /\ steps >= 5
    /\ nCommit = 1

\* C5: DB.Begin, d nested Begins and then d+1 Closes, with no Commit or
\* Rollback in between and no failing backend rollback, leave the backend
\* transaction rolled back and RolledBack() true.
C5_AutoRollback ==
    (script = "autoClose" /\ depth = -1) =>
        (bstate = "rolledback" /\ RolledBack(tx))

C5_Witness ==
    /\ script = "autoClose"
    /\ depth = -1
    /\ steps >= 5
    /\ RolledBack(tx)

\* C6: when every Begin (DB.Begin included) has been matched by a Close and
\* no backend rollback of the open handle has failed, the backend
\* transaction is committed or rolled back.
C6_NoLeak ==
    (depth = -1 /\ ~overClosed /\ ~rbFailed) => bstate # "open"

C6_Witness ==
    /\ depth = -1
    /\ ~overClosed
    /\ ~rbFailed
    /\ last.op = "Close"
    /\ steps >= 4
    /\ script = "off"
    /\ last.calls = <<"rollback">>
    /\ bstate = "rolledback"

\* C7 as stated: once the backend commit has succeeded, every call other
\* than Close returns an error and makes no backend call.
C7_Original ==
    (last.preB = "committed" /\ last.op # "Close")
        => (last.err # ErrNil /\ last.calls = <<>>)

\* C8 as stated: a Close that follows a Commit or Rollback that returned nil
\* returns nil and makes no backend call.
C8_Original ==
    (last.op = "Close" /\ last.afterResolve)
        => (last.err = ErrNil /\ last.calls = <<>>)

\* C9 as stated: the backend commit-or-rollback primitive is never called
\* on a handle that is already committed or rolled back, and when every
\* Begin has been matched by a Close and no backend call has failed it has
\* been called exactly once.
C9_Original ==
    /\ (Count(last.calls, "commit") + Count(last.calls, "rollback") > 0)
          => last.preB = "open"
    /\ (depth = -1 /\ ~overClosed /\ ~rbFailed /\ ~cmFailed)
          => nCommit + nRollback = 1

\* C10: with the sticky flag unset and current = _commit, Commit and
\* Rollback return ErrTxCommitted, make no backend call and leave current,
\* history and the sticky flag unchanged.
C10_CommittedRejects ==
    (last.op \in {"Commit", "Rollback"} /\ ~last.pre.rollback
       /\ last.pre.current = _commit)
        => (last.err = ErrTxCommitted /\ last.calls = <<>> /\ tx = last.pre)

C10_Witness ==
    /\ last.op = "Rollback"
    /\ ~last.pre.rollback
    /\ last.pre.current = _commit
    /\ Len(last.pre.history) > 0
    /\ last.err = ErrTxCommitted

\* C11: whenever the sticky flag is set, Rollback returns nil, makes no
\* backend call and changes neither current nor history (it does not pop).
C11_RollbackIdempotent ==
    (last.op = "Rollback" /\ last.pre.rollback)
        => (last.err = ErrNil /\ last.calls = <<>> /\ tx = last.pre)

C11_Witness ==
    /\ last.op = "Rollback"
    /\ last.pre.rollback
    /\ Len(last.pre.history) > 0
    /\ last.afterResolve
    /\ last.err = ErrNil

\* C12: after the outermost Commit has succeeded and Close has followed it,
\* every statement call, Savepoint, RollbackTo, Commit and Rollback returns
\* ErrTxCommitted and makes no backend call.
C12_CommittedAfterClose ==
    (last.preSealed
       /\ last.op \in StmtOps \cup SavepointOps \cup {"Commit", "Rollback"})
        => (last.err = ErrTxCommitted /\ last.calls = <<>>)

C12_Witness ==
    /\ last.preSealed
    /\ last.op = "Exec"
    /\ last.preDepth = -1
    /\ last.err = ErrTxCommitted

\* C13 as stated: while the Tx is in use and no level has closed twice,
\* len(history) equals the number of Begin calls not yet matched by a Close,
\* minus one.
C13_Original ==
    (depth >= 0 /\ ~ended /\ ~overClosed) => Len(tx.history) = depth

\* C14: Begin and BeginCtx on a Tx make no backend call, so exactly one
\* backend transaction (the one of DB.Begin) is ever begun for the Tx.
C14_OneBackendTx ==
    /\ nBegin = 1
    /\ last.op \in {"Begin", "BeginCtx"} => last.calls = <<>>

C14_Witness ==
    /\ last.op = "BeginCtx"
    /\ last.err = ErrNil
    /\ Len(tx.history) = 2
    /\ nBegin = 1

\* C15: once the bound context is non-nil no method call changes it.
C15_ContextImmutable == [][tx.ctx # NoCtx => tx'.ctx = tx.ctx]_vars

C15_Witness ==
    /\ last.op = "BeginCtx"
    /\ last.pre.ctx # NoCtx
    /\ ~last.pre.rollback
    /\ last.arg = NoCtx
    /\ tx.ctx = last.pre.ctx

\* C18: Savepoint and RollbackTo leave current, history, the sticky flag and
\* the context as they were; after a RollbackTo that returned nil the level
\* is still pending, the statement guard passes and Commit is accepted.
C18_SavepointNeutral ==
    /\ last.op \in SavepointOps => tx = last.pre
    /\ (last.op = "RollbackTo" /\ last.err = ErrNil) =>
          /\ tx.current = _pending
          /\ ok(tx) = ErrNil
          /\ TxCommit(tx, bstate, TRUE).err = ErrNil

C18_Witness ==
    /\ last.op = "RollbackTo"
    /\ last.err = ErrNil
    /\ Len(tx.history) > 0
    /\ tx.current = _pending

\* C17: on a bare DB, Commit and Rollback return nil without a backend call,
\* RolledBack returns false, and Savepoint and RollbackTo return no error
\* and send nothing to the backend, Savepoint handing back a non-empty
\* identifier; this holds after any sequence of DB calls.
C17_BareDBNoOps ==
    /\ dbLast.op \in {"Commit", "Rollback", "Savepoint", "RollbackTo"} =>
          (dbLast.err = NilErr /\ dbLast.calls = <<>> /\ ~dbLast.panic)
    /\ dbLast.op = "RolledBack" => (dbLast.flag = FALSE /\ dbLast.calls = <<>>)
    /\ dbLast.op = "Savepoint" => dbLast.id # 0

C17_Witness ==
    /\ dbLast.op = "Savepoint"
    /\ dbLast.id = 2
    /\ ~db.open
    /\ dbLast.calls = <<>>

\* C24: DidConnectionFail answers true for a network operation error and
\* for a backend error of class 08, 3D, 53, 57, 58 or XX, and false for nil
\* and for every other error.
C24_Original ==
    dbLast.op = "DidConnectionFail" =>
        /\ ~dbLast.panic
        /\ dbLast.flag =
              (\/ dbLast.err.type = "net.OpError"
               \/ /\ dbLast.err.type = "pq.Error"
                  /\ Len(dbLast.err.code) >= 2
                  /\ SubSeq(dbLast.err.code, 1, 2) \in
                        {<<"0", "8">>, <<"3", "D">>, <<"5", "3">>,
                         <<"5", "7">>, <<"5", "8">>, <<"X", "X">>})

\* C25: DidConnectionFail returns for every error, a backend error with an
\* empty or one-character code included; it never panics.
C25_Original == dbLast.op = "DidConnectionFail" => ~dbLast.panic

\* C26: a call that reaches the backend and returns invokes OnFailure once
\* when the backend error is not nil, OnFailure is set and the error is a
\* connection failure, and not at all otherwise.
C26_Original ==
    (dbLast.calls # <<>> /\ ~dbLast.panic) =>
        dbLast.called =
            (IF /\ dbLast.err # NilErr
                /\ db.onFailure
                /\ DidConnectionFail(dbLast.err).val
             THEN 1 ELSE 0)

\* ------------------------------- calls on the Tx that records failures
\* a call that takes the mutex waits while a hung Commit holds it; the
\* statement methods take no lock and run regardless
V1Call(op, arg, r) ==
    /\ v1.ops < MaxV1Ops
    /\ v1' = [tx |-> r.tx, ops |-> v1.ops + 1]
    /\ v1Last' = [op |-> op, arg |-> arg, err |-> r.err, hung |-> r.hung,
                  pre |-> v1.tx]
    /\ UNCHANGED <<txVars, dbVars, spVars, ccVars, wdVars, cnVars, unVars>>

V1DoBegin ==
    /\ ~v1.tx.locked
    /\ V1Call("Begin", NoCtx, V1Begin(v1.tx))

V1DoBeginCtx ==
    /\ ~v1.tx.locked
    /\ \E c \in Ctxs : V1Call("BeginCtx", c, V1BeginCtx(v1.tx, c))

V1DoStmt ==
    /\ \E kind \in StmtOps, bOk \in BOOLEAN :
          V1Call(kind, NoCtx, V1Stmt(v1.tx, kind, bOk))

V1DoCommit ==
    /\ ~v1.tx.locked
    /\ \E bOk \in BOOLEAN : V1Call("Commit", NoCtx, V1Commit(v1.tx, bOk))

V1DoRollback ==
    /\ ~v1.tx.locked
    /\ \E bOk \in BOOLEAN : V1Call("Rollback", NoCtx, V1Rollback(v1.tx, bOk))

V1DoClose ==
    /\ ~v1.tx.locked
    /\ \E bOk \in BOOLEAN : V1Call("Close", NoCtx, V1Close(v1.tx, bOk))

NextV1 ==
    \/ V1DoBegin
    \/ V1DoBeginCtx
    \/ V1DoStmt
    \/ V1DoCommit
    \/ V1DoRollback
    \/ V1DoClose

InitV1 ==
    /\ InitTxVars(NoCtx)
    /\ InitDBVars(FALSE)
    /\ InitSpVars
    /\ \E c \in Ctxs \cup {NoCtx} : InitV1Vars(c)
    /\ InitCcVars(CHOOSE s \in ConcStarts : s.tx.history = <<>> /\ ~s.tx.rollback,
                  TRUE)
    /\ InitWdVars
    /\ InitCnVars
    /\ InitUnVars(CHOOSE s \in UnitStarts : s.tx.history = <<>> /\ s.b = "open")

SpecV1 == InitV1 /\ [][NextV1]_vars

\* C16: a BeginCtx with a context other than the bound one, on a Tx that is
\* not rolled back, returns ErrBadContext and changes nothing: history,
\* current, the sticky flag and the context keep their values and the
\* statement methods answer as they did before the call; a BeginCtx with the
\* bound context does what Begin does.
C16_Original ==
    /\ (v1Last.op = "BeginCtx" /\ ~v1Last.pre.rollback
          /\ v1Last.pre.ctx # NoCtx /\ v1Last.arg # v1Last.pre.ctx) =>
          /\ v1Last.err = ErrBadContext
          /\ v1.tx.history = v1Last.pre.history
          /\ v1.tx.current = v1Last.pre.current
          /\ v1.tx.rollback = v1Last.pre.rollback
          /\ v1.tx.ctx = v1Last.pre.ctx
          /\ V1ok(v1.tx) = V1ok(v1Last.pre)
    /\ (v1Last.op = "BeginCtx" /\ v1Last.arg = v1Last.pre.ctx) =>
          (v1.tx = V1Begin(v1Last.pre).tx /\ v1Last.err = V1Begin(v1Last.pre).err)

\* ------------------------------------------- two threads calling Begin
\* Begin of src/tx.go takes the Tx mutex for its body; Begin of
\* src/unnamed/part_006 takes none.  The body is the test of tx.rollback and
\* push, whose two assignments read tx.history and tx.current, store the
\* appended slice, and store the new current.
Step(i, pc2, h2, c2, err2) ==
    th' = [th EXCEPT ![i] = [pc |-> pc2, h |-> h2, c |-> c2, err |-> err2]]

BeginLock(i) ==
    /\ cc.useLock /\ th[i].pc = "start" /\ cc.mu = 0
    /\ cc' = [cc EXCEPT !.mu = i]
    /\ Step(i, "check", th[i].h, th[i].c, th[i].err)

BeginCheck(i) ==
    /\ th[i].pc = (IF cc.useLock THEN "check" ELSE "start")
    /\ IF cc.tx.rollback
       THEN Step(i, IF cc.useLock THEN "unlock" ELSE "returned",
                 th[i].h, th[i].c, ErrTxRolledBack)
       ELSE Step(i, "read", th[i].h, th[i].c, th[i].err)
    /\ UNCHANGED cc

BeginRead(i) ==
    /\ th[i].pc = "read"
    /\ Step(i, "append", cc.tx.history, cc.tx.current, th[i].err)
    /\ UNCHANGED cc

BeginAppend(i) ==
    /\ th[i].pc = "append"
    /\ cc' = [cc EXCEPT !.tx.history = Append(th[i].h, th[i].c)]
    /\ Step(i, "setCurrent", th[i].h, th[i].c, th[i].err)

BeginSetCurrent(i) ==
    /\ th[i].pc = "setCurrent"
    /\ cc' = [cc EXCEPT !.tx.current = _pending]
    /\ Step(i, IF cc.useLock THEN "unlock" ELSE "returned",
            th[i].h, th[i].c, ErrNil)

BeginUnlock(i) ==
    /\ th[i].pc = "unlock" /\ cc.mu = i
    /\ cc' = [cc EXCEPT !.mu = 0]
    /\ Step(i, "returned", th[i].h, th[i].c, th[i].err)

BothReturned == \A i \in Threads : th[i].pc \in {"returned", "closed"}

BothBegun == BothReturned /\ \A i \in Threads : th[i].err = ErrNil

\* once both Begin calls have returned nil, each is matched by a Close
CloseAfter(i) ==
    /\ BothBegun /\ th[i].pc = "returned"
    /\ \E bOk \in BOOLEAN :
          LET r == TxClose(cc.tx, cc.b, bOk) IN
          cc' = [cc EXCEPT !.tx = r.tx, !.b = r.b]
    /\ Step(i, "closed", th[i].h, th[i].c, th[i].err)

ConcLock ==
    /\ \E i \in Threads : BeginLock(i)
    /\ UNCHANGED <<txVars, dbVars, spVars, v1Vars, wdVars, cnVars, unVars>>

ConcCheck ==
    /\ \E i \in Threads : BeginCheck(i)
    /\ UNCHANGED <<txVars, dbVars, spVars, v1Vars, wdVars, cnVars, unVars>>

ConcRead ==
    /\ \E i \in Threads : BeginRead(i)
    /\ UNCHANGED <<txVars, dbVars, spVars, v1Vars, wdVars, cnVars, unVars>>

ConcAppend ==
    /\ \E i \in Threads : BeginAppend(i)
    /\ UNCHANGED <<txVars, dbVars, spVars, v1Vars, wdVars, cnVars, unVars>>

ConcSetCurrent ==
    /\ \E i \in Threads : BeginSetCurrent(i)
    /\ UNCHANGED <<txVars, dbVars, spVars, v1Vars, wdVars, cnVars, unVars>>

ConcUnlock ==
    /\ \E i \in Threads : BeginUnlock(i)
    /\ UNCHANGED <<txVars, dbVars, spVars, v1Vars, wdVars, cnVars, unVars>>

ConcClose ==
    /\ \E i \in Threads : CloseAfter(i)
    /\ UNCHANGED <<txVars, dbVars, spVars, v1Vars, wdVars, cnVars, unVars>>

NextConc ==
    \/ ConcLock
    \/ ConcCheck
    \/ ConcRead
    \/ ConcAppend
    \/ ConcSetCurrent
    \/ ConcUnlock
    \/ ConcClose

InitConc ==
    /\ InitTxVars(NoCtx)
    /\ InitDBVars(FALSE)
    /\ InitSpVars
    /\ InitV1Vars(NoCtx)
    /\ \E s \in ConcStarts, lock \in BOOLEAN : InitCcVars(s, lock)
    /\ InitWdVars
    /\ InitCnVars
    /\ InitUnVars(CHOOSE s \in UnitStarts : s.tx.history = <<>> /\ s.b = "open")

SpecConc == InitConc /\ [][NextConc]_vars

\* C20: when two threads have each had Begin return nil on the same Tx,
\* len(history) is two more than before the calls, whatever the
\* interleaving; and once the two matching Close calls have returned,
\* history is back to its length before the calls (empty for a new Tx).
C20_Original ==
    /\ (BothBegun /\ \A i \in Threads : th[i].pc = "returned") =>
          Len(cc.tx.history) = cc.len0 + 2
    /\ (\A i \in Threads : th[i].pc = "closed") =>
          Len(cc.tx.history) = cc.len0

\* C35: the state check, backend call and state change of a Tx method are
\* atomic with respect to every other call on the same Tx: once two threads
\* have both returned from their calls (here, Begin), current, history and
\* the sticky flag, the errors returned and the backend calls made are those
\* of the two calls made one after the other in some order.
C35_Original ==
    (\A i \in Threads : th[i].pc = "returned") =>
        LET first == TxBegin(cc.start, cc.b)
            second == TxBegin(first.tx, first.b)
        IN /\ cc.tx = second.tx
           /\ cc.b = second.b
           /\ \/ th[1].err = first.err /\ th[2].err = second.err
              \/ th[2].err = first.err /\ th[1].err = second.err

\* ---------------------------------------------- the transaction timer
\* EnableTimeouts and DisableTimeouts may be called at any moment; one Tx is
\* begun on the DB and then used; the timer expires at any moment from its
\* creation on, and its function runs in two steps (it reads
\* TxTimeout.Enabled, then TxTimeout.Panic).  A panic in the timer function
\* ends the process.
WDStep(op, dur, err, returned, new) ==
    /\ wd.ops < MaxWDOps
    /\ ~wd.crashed
    /\ wd' = [new EXCEPT !.ops = wd.ops + 1]
    /\ wdLast' = [op |-> op, dur |-> dur, err |-> err, returned |-> returned,
                  pre |-> wd]
    /\ UNCHANGED <<txVars, dbVars, spVars, v1Vars, ccVars, cnVars, unVars>>

WDEnableTimeouts ==
    /\ \E dur \in {0, 1}, panic \in BOOLEAN :
          WDStep("EnableTimeouts", dur, ErrNil, TRUE,
                 [wd EXCEPT !.cfg = EnableTimeouts(wd.cfg, dur, panic)])

WDDisableTimeouts ==
    /\ WDStep("DisableTimeouts", 0, ErrNil, TRUE,
              [wd EXCEPT !.cfg = DisableTimeouts(wd.cfg)])

WDDBBegin ==
    /\ ~wd.exists
    /\ \E c \in {NoCtx, "ctxA"}, bOk \in BOOLEAN :
          IF bOk
          THEN WDStep("DB.Begin", 0, ErrNil, TRUE,
                      [wd EXCEPT !.exists = TRUE, !.w = WDNewTx(wd.cfg, c),
                                 !.nArmed = IF WDNewTx(wd.cfg, c).timer = "set"
                                            THEN wd.nArmed + 1 ELSE wd.nArmed])
          ELSE WDStep("DB.Begin", 0, ErrBackend, TRUE, wd)

WDBegin ==
    /\ wd.exists
    /\ Len(wd.w.tx.history) < MaxDepth
    /\ WDStep("Begin", 0, WDTxBegin(wd.w).err, TRUE,
              [wd EXCEPT !.w = WDTxBegin(wd.w).w])

WDCommit ==
    /\ wd.exists
    /\ \E bOk \in BOOLEAN :
          WDStep("Commit", 0, WDTxCommit(wd.w, bOk).err, TRUE,
                 [wd EXCEPT !.w = WDTxCommit(wd.w, bOk).w])

WDRollback ==
    /\ wd.exists
    /\ \E bOk \in BOOLEAN :
          LET r == WDTxRollback(wd.w, bOk) IN
          WDStep("Rollback", 0, r.err, r.returned, [wd EXCEPT !.w = r.w])

WDClose ==
    /\ wd.exists
    /\ \E bOk \in BOOLEAN :
          LET r == WDTxClose(wd.w, bOk) IN
          WDStep("Close", 0, r.err, r.returned,
                 [wd EXCEPT !.w = r.w,
                            !.unwound = \/ wd.unwound
                                        \/ /\ r.returned
                                           /\ Len(wd.w.tx.history) = 0
                                           /\ wd.w.tstate = "pending"])

WDExpire ==
    /\ wd.exists
    /\ wd.w.tstate = "pending"
    /\ WDStep("expire", 0, ErrNil, TRUE,
              [wd EXCEPT !.w.tstate = txTimedOut(wd.cfg),
                         !.expEnabled = wd.cfg.Enabled])

WDReport ==
    /\ wd.exists
    /\ wd.w.tstate = "reporting"
    /\ WDStep("report", 0, ErrNil, TRUE,
              [wd EXCEPT !.w.tstate = "fired",
                         !.repPanic = wd.cfg.Panic,
                         !.nPanic = IF txReport(wd.cfg) = "panic"
                                    THEN wd.nPanic + 1 ELSE wd.nPanic,
                         !.nStderr = IF txReport(wd.cfg) = "stderr"
                                     THEN wd.nStderr + 1 ELSE wd.nStderr,
                         !.crashed = (txReport(wd.cfg) = "panic")])

NextWD ==
    \/ WDEnableTimeouts
    \/ WDDisableTimeouts
    \/ WDDBBegin
    \/ WDBegin
    \/ WDCommit
    \/ WDRollback
    \/ WDClose
    \/ WDExpire
    \/ WDReport

InitWD ==
    /\ InitTxVars(NoCtx)
    /\ InitDBVars(FALSE)
    /\ InitSpVars
    /\ InitV1Vars(NoCtx)
    /\ InitCcVars(CHOOSE s \in ConcStarts : s.tx.history = <<>> /\ ~s.tx.rollback,
                  TRUE)
    /\ InitWdVars
    /\ InitCnVars
    /\ InitUnVars(CHOOSE s \in UnitStarts : s.tx.history = <<>> /\ s.b = "open")

SpecWD == InitWD /\ [][NextWD]_vars

\* C21: a Close or Rollback always returns, also when it has to stop a
\* timer that has already expired.
C21_Original == wdLast.op \in {"Close", "Rollback"} => wdLast.returned

\* C22: a Tx gets one timer, at DB.Begin / DB.BeginCtx and only when
\* timeouts are enabled; a nested Begin arms none; the Close that finds the
\* history empty while the timer is pending stops and forgets it; and once
\* such a Close has returned no report is ever made.
C22_OneTimerDisarmed ==
    /\ wd.nArmed <= 1
    /\ (wdLast.op = "DB.Begin" /\ wdLast.err = ErrNil) =>
          /\ wd.nArmed = (IF wdLast.pre.cfg.Enabled THEN 1 ELSE 0)
          /\ (wd.w.tstate = "pending") = wdLast.pre.cfg.Enabled
    /\ wdLast.op = "Begin" =>
          /\ wd.nArmed = wdLast.pre.nArmed
          /\ wd.w.tstate = wdLast.pre.w.tstate
          /\ wd.w.timer = wdLast.pre.w.timer
    /\ (/\ wdLast.op = "Close"
        /\ Len(wdLast.pre.w.tx.history) = 0
        /\ wdLast.pre.w.tstate = "pending") =>
          /\ wdLast.returned
          /\ wd.w.tstate = "stopped"
          /\ wd.w.timer = "nil"
    /\ wd.unwound => (wd.nStderr = 0 /\ wd.nPanic = 0 /\ ~wd.crashed)

C22_Witness ==
    /\ wdLast.op = "Close"
    /\ wdLast.pre.w.tx.history = <<>>
    /\ wdLast.pre.w.tstate = "pending"
    /\ wdLast.pre.w.tx.rollback
    /\ wd.unwound
    /\ wd.nArmed = 1
    /\ wd.w.tstate = "stopped"

\* C23: a timer that expires makes one report when timeouts are enabled at
\* that moment, a panic when TxTimeout.Panic is set and a line on stderr when
\* it is not, and none when timeouts are disabled; there is never a second
\* report; EnableTimeouts with a zero duration changes nothing, so a Tx
\* begun after it alone has no timer.
C23_OneReport ==
    /\ wd.nStderr + wd.nPanic <= 1
    /\ wd.w.tstate = "fired" =>
          /\ wd.nStderr + wd.nPanic = (IF wd.expEnabled THEN 1 ELSE 0)
          /\ wd.expEnabled => (wd.nPanic = 1) = wd.repPanic
    /\ wd.w.tstate \in {"none", "pending", "stopped"} =>
          wd.nStderr + wd.nPanic = 0
    /\ (wdLast.op = "EnableTimeouts" /\ wdLast.dur = 0) =>
          wd.cfg = wdLast.pre.cfg
    /\ (wdLast.op = "report" /\ wdLast.pre.cfg.Panic) => wd.crashed
    /\ (wdLast.op = "report" /\ ~wdLast.pre.cfg.Panic) =>
          (wd.nStderr = 1 /\ ~wd.crashed)

C23_Witness ==
    /\ wd.w.tstate = "fired"
    /\ wd.nStderr = 1
    /\ wd.expEnabled
    /\ ~wd.cfg.Enabled
    /\ Len(wd.w.tx.history) = 1

\* ------------------------------------------------------------ connecting
\* one data source; Connect or ConnectUnchecked is called on it once; the
\* caller may then set OnFailure on the DB it was handed and call Exec
CnConnect ==
    /\ cn.via = "none"
    /\ \E pings \in PingScripts(cn.src) :
          LET r == Connect(cn.src, pings) IN
          /\ cn' = [cn EXCEPT !.has = r.has, !.db = r.db, !.via = "Connect"]
          /\ cnLast' = [op |-> "Connect", err |-> r.err, dials |-> r.dials,
                        pinged |-> r.pinged, called |-> 0, pings |-> pings]
    /\ UNCHANGED <<txVars, dbVars, spVars, v1Vars, ccVars, wdVars, unVars>>

CnConnectUnchecked ==
    /\ cn.via = "none"
    /\ \E pings \in PingScripts(cn.src) :
          LET r == ConnectUnchecked(cn.src, pings) IN
          /\ cn' = [cn EXCEPT !.has = r.has, !.db = r.db,
                              !.via = "ConnectUnchecked"]
          /\ cnLast' = [op |-> "ConnectUnchecked", err |-> r.err,
                        dials |-> r.dials, pinged |-> r.pinged, called |-> 0,
                        pings |-> <<>>]
    /\ UNCHANGED <<txVars, dbVars, spVars, v1Vars, ccVars, wdVars, unVars>>

CnSetOnFailure ==
    /\ cn.has /\ cn.ops < MaxCnOps
    /\ \E fn \in BOOLEAN :
          cn' = [cn EXCEPT !.db.onFailure = fn, !.ops = cn.ops + 1]
    /\ cnLast' = [op |-> "OnFailure", err |-> NilErr, dials |-> 0,
                  pinged |-> 0, called |-> 0, pings |-> <<>>]
    /\ UNCHANGED <<txVars, dbVars, spVars, v1Vars, ccVars, wdVars, unVars>>

CnExec ==
    /\ cn.has /\ cn.ops < MaxCnOps
    /\ \E e \in ExecOutcomes(cn.src, cn.db) :
          LET r == DBForward(cn.db, "exec", e) IN
          /\ cn' = [cn EXCEPT !.execs = cn.execs + 1,
                              !.nFailure = cn.nFailure + r.called,
                              !.ops = cn.ops + 1]
          /\ cnLast' = [op |-> "Exec", err |-> r.err, dials |-> 0,
                        pinged |-> 0, called |-> r.called, pings |-> <<>>]
    /\ UNCHANGED <<txVars, dbVars, spVars, v1Vars, ccVars, wdVars, unVars>>

CnClose ==
    /\ cn.has /\ cn.ops < MaxCnOps
    /\ cn' = [cn EXCEPT !.db.open = FALSE, !.ops = cn.ops + 1]
    /\ cnLast' = [op |-> "Close", err |-> NilErr, dials |-> 0,
                  pinged |-> 0, called |-> 0, pings |-> <<>>]
    /\ UNCHANGED <<txVars, dbVars, spVars, v1Vars, ccVars, wdVars, unVars>>

NextCn ==
    \/ CnConnect
    \/ CnConnectUnchecked
    \/ CnSetOnFailure
    \/ CnExec
    \/ CnClose

InitCn ==
    /\ InitTxVars(NoCtx)
    /\ InitDBVars(FALSE)
    /\ InitSpVars
    /\ InitV1Vars(NoCtx)
    /\ InitCcVars(CHOOSE s \in ConcStarts : s.tx.history = <<>> /\ ~s.tx.rollback,
                  TRUE)
    /\ InitWdVars
    /\ \E src \in Sources :
          /\ cn = [src |-> src, has |-> FALSE, db |-> NewDB(FALSE),
                   via |-> "none", execs |-> 0, nFailure |-> 0, ops |-> 0]
          /\ cnLast = [op |-> "none", err |-> NilErr, dials |-> 0,
                       pinged |-> 0, called |-> 0, pings |-> <<>>]
    /\ InitUnVars(CHOOSE s \in UnitStarts : s.tx.history = <<>> /\ s.b = "open")

SpecCn == InitCn /\ [][NextCn]_vars

\* C27: ConnectUnchecked on an unreachable data source returns a DB and no
\* error without pinging; the first Exec on that DB returns an error that
\* DidConnectionFail classifies as a connection failure, and OnFailure, when
\* the caller has set it, is invoked once.
C27_UncheckedFailsOnExec ==
    /\ (cnLast.op = "ConnectUnchecked" /\ cn.src = "unreachable") =>
          (cn.has /\ cnLast.err = NilErr /\ cnLast.pinged = 0 /\ cn.db.open)
    /\ (/\ cnLast.op = "Exec" /\ cn.execs = 1
        /\ cn.via = "ConnectUnchecked" /\ cn.src = "unreachable"
        /\ cn.db.open) =>
          /\ cnLast.err # NilErr
          /\ DidConnectionFail(cnLast.err).val
          /\ cnLast.called = (IF cn.db.onFailure THEN 1 ELSE 0)

C27_Witness ==
    /\ cnLast.op = "Exec" /\ cn.execs = 1
    /\ cn.via = "ConnectUnchecked" /\ cn.src = "unreachable"
    /\ cn.db.onFailure
    /\ cnLast.called = 1
    /\ cnLast.err = PqErr(<<"3", "D", "0", "0", "0">>)

\* C28: Connect hands back a DB exactly when it returns no error, and then
\* the last ping it made succeeded and the handle is open; a malformed data
\* source is answered after one dial with no ping and no second attempt;
\* when every ping fails Connect returns the error and no DB.
C28_ConnectPinged ==
    cnLast.op = "Connect" =>
        /\ cn.has = (cnLast.err = NilErr)
        /\ cn.has =>
              /\ cn.db.open
              /\ cnLast.pinged >= 1
              /\ cnLast.pings[cnLast.pinged] = NilErr
        /\ cn.src = "malformed" =>
              /\ ~cn.has
              /\ cnLast.err = ConfigErr
              /\ cnLast.dials = 1
              /\ cnLast.pinged = 0
        /\ (cn.src # "malformed"
              /\ \A i \in 1..Len(cnLast.pings) : cnLast.pings[i] # NilErr) =>
              /\ ~cn.has
              /\ cnLast.err = cnLast.pings[Len(cnLast.pings)]
              /\ cnLast.pinged = Len(cnLast.pings)

C28_Witness ==
    /\ cnLast.op = "Connect"
    /\ cn.src = "unreachable"
    /\ ~cn.has
    /\ cnLast.pinged = MaxTicks
    /\ cnLast.err = NetErr

\* C29: when the backend commit of an outermost Commit fails, the level is
\* not marked: current, history and the sticky flag are what they were
\* before the call and the backend error is what Commit yields.
C29_Original ==
    (/\ v1Last.op = "Commit"
     /\ Len(v1Last.pre.history) = 0
     /\ v1Last.err \in {ErrBackend, ErrTxDone}) =>
        /\ v1.tx.current = v1Last.pre.current
        /\ v1.tx.history = v1Last.pre.history
        /\ v1.tx.rollback = v1Last.pre.rollback

\* C31: when the backend rollback issued by Rollback fails, Rollback yields
\* that error and current, history and the sticky flag are what they were
\* before the call: nothing is popped and the statement methods still reach
\* the backend.
C31_Original ==
    (/\ v1Last.op = "Rollback"
     /\ ~v1Last.hung
     /\ v1Last.err \in {ErrBackend, ErrTxDone}) =>
        /\ v1.tx.current = v1Last.pre.current
        /\ v1.tx.history = v1Last.pre.history
        /\ v1.tx.rollback = v1Last.pre.rollback
        /\ V1ok(v1.tx) = V1ok(v1Last.pre)

\* C32: a Rollback called with the sticky flag unset on a level that is not
\* committed makes exactly one backend rollback in that call, however many
\* levels are on the history stack.
C32_RollbackAlwaysReal ==
    (/\ last.op = "Rollback"
     /\ ~last.pre.rollback
     /\ last.pre.current # _commit) =>
        /\ last.calls = <<"rollback">>
        /\ nRollback >= 1

C32_Witness ==
    /\ last.op = "Rollback"
    /\ ~last.pre.rollback
    /\ last.pre.current = _pending
    /\ Len(last.pre.history) = MaxDepth
    /\ last.calls = <<"rollback">>
    /\ last.err = ErrNil
    /\ bstate = "rolledback"

\* C33: Exec, Query, Row, Prepare, Get and Select leave current, history,
\* the sticky flag and the bound context as they found them, whether the
\* guard rejected the call, the backend call succeeded, or the backend call
\* failed (a cancelled context is one such failure).
C33_StatementsNeutral ==
    last.op \in StmtOps =>
        /\ tx.current = last.pre.current
        /\ tx.history = last.pre.history
        /\ tx.rollback = last.pre.rollback
        /\ tx.ctx = last.pre.ctx

C33_Witness ==
    /\ last.op \in StmtOps \ {"Row"}
    /\ last.pre.ctx # NoCtx
    /\ Len(last.pre.history) >= 1
    /\ last.err = ErrBackend
    /\ Len(last.calls) = 1
    /\ tx = last.pre

\* C36: the mutex is held for one call only: every method that takes it
\* has released it when it returns, and it does return, so the next call
\* that needs the mutex gets it.
C36_Original ==
    v1Last.op \in {"Begin", "BeginCtx", "Commit", "Rollback", "Close"} =>
        /\ ~v1Last.hung
        /\ ~v1.tx.locked

\* C38: in every reachable state RolledBack() is true exactly when a backend
\* rollback made by Rollback or Close has succeeded; whenever current is
\* rolled back the sticky flag is set; and no entry of history is rolled
\* back.
C38_FlagIffRolledBack ==
    /\ RolledBack(tx) <=> (bstate = "rolledback")
    /\ (bstate = "rolledback") => (nRollback >= 1)
    /\ (last.op \notin {"Rollback", "Close"} \/ last.err # ErrNil
           \/ last.calls # <<"rollback">>) =>
          (RolledBack(tx) = RolledBack(last.pre))
    /\ (tx.current = _rollback) => RolledBack(tx)
    /\ \A k \in 1..Len(tx.history) : tx.history[k] # _rollback

C38_Witness ==
    /\ last.op = "Close"
    /\ last.calls = <<"rollback">>
    /\ last.err = ErrNil
    /\ ~last.pre.rollback
    /\ RolledBack(tx)
    /\ bstate = "rolledback"
    /\ Len(last.pre.history) = 1
    /\ tx.history = <<>>

SnapOf(id) ==
    LET S == {k \in 1..Len(sp.snaps) : sp.snaps[k].id = id} IN
    sp.snaps[MaxOf(S)].rows

Handed(id) == \E k \in 1..Len(sp.snaps) : sp.snaps[k].id = id

\* C19: after a RollbackTo of a savepoint the caller was handed has returned
\* nil, the transaction holds exactly the rows inserted before that
\* savepoint, and a row count taken next returns their number.
C19_RollbackToRestores ==
    /\ (spLast.op = "RollbackTo" /\ Handed(spLast.arg)) =>
          (spLast.err = ErrNil => sp.rows = SnapOf(spLast.arg))
    /\ (spLast.op = "Count" /\ spLast.err = ErrNil
          /\ spLast.prevOp = "RollbackTo" /\ spLast.prevErr = ErrNil
          /\ Handed(spLast.prevArg)) =>
          spLast.count = Len(SnapOf(spLast.prevArg))
    /\ (spLast.op = "Savepoint" /\ spLast.err = ErrNil) => spLast.id # 0

C19_Witness ==
    /\ spLast.op = "Count"
    /\ spLast.err = ErrNil
    /\ spLast.prevOp = "RollbackTo"
    /\ spLast.prevErr = ErrNil
    /\ Handed(spLast.prevArg)
    /\ spLast.count = 1
    /\ sp.rowSeq >= 2

\* ------------------------- two threads, each a Begin; Commit; Close unit
\* thread i makes the call op, which yields r; a thread whose Begin was
\* refused makes no further call
UnCall(i, op, r) ==
    /\ un' = [un EXCEPT
          !.tx = r.tx,
          !.b = r.b,
          !.pc[i] = IF op = "Begin" /\ r.err # ErrNil THEN 3 ELSE @ + 1,
          !.snap[i] = IF op = "Begin" THEN un.tx ELSE @,
          !.alone = [j \in Threads |->
                       IF j # i /\ un.pc[j] \in {1, 2} THEN FALSE
                       ELSE un.alone[j]],
          !.errs[i] = Append(@, r.err),
          !.calls[i] = @ \o r.calls,
          !.order = Append(@, i),
          !.ops = Append(@, op)]
    /\ UNCHANGED <<txVars, dbVars, spVars, v1Vars, ccVars, wdVars, cnVars>>

UnBegin ==
    /\ \E i \in Threads :
          /\ un.pc[i] = 0
          /\ UnCall(i, "Begin", TxBegin(un.tx, un.b))

UnCommit ==
    /\ \E i \in Threads, bOk \in BOOLEAN :
          /\ un.pc[i] = 1
          /\ UnCall(i, "Commit", TxCommit(un.tx, un.b, bOk))

UnClose ==
    /\ \E i \in Threads, bOk \in BOOLEAN :
          /\ un.pc[i] = 2
          /\ UnCall(i, "Close", TxClose(un.tx, un.b, bOk))

NextUnit ==
    \/ UnBegin
    \/ UnCommit
    \/ UnClose

InitUnit ==
    /\ InitTxVars(NoCtx)
    /\ InitDBVars(FALSE)
    /\ InitSpVars
    /\ InitV1Vars(NoCtx)
    /\ InitCcVars(CHOOSE s \in ConcStarts : s.tx.history = <<>> /\ ~s.tx.rollback,
                  TRUE)
    /\ InitWdVars
    /\ InitCnVars
    /\ \E s \in UnitStarts : InitUnVars(s)

SpecUnit == InitUnit /\ [][NextUnit]_vars

\* thread i has just returned from the Close of a unit that no call of the
\* other thread fell into
UnitJustDone(i) ==
    /\ un.pc[i] = 3
    /\ un.alone[i]
    /\ Len(un.errs[i]) = 3
    /\ un.order # <<>>
    /\ un.order[Len(un.order)] = i

\* C34: on a Tx whose sticky flag is unset, Begin, then Commit, then Close
\* make no backend call, all return nil, and leave current and history (and
\* with them what the statement methods and Commit answer next) exactly as
\* they were before the Begin.
C34_NestedRoundTrip ==
    \A i \in Threads :
        (UnitJustDone(i) /\ ~un.snap[i].rollback) =>
            /\ un.calls[i] = <<>>
            /\ un.errs[i] = <<ErrNil, ErrNil, ErrNil>>
            /\ un.tx.current = un.snap[i].current
            /\ un.tx.history = un.snap[i].history
            /\ ok(un.tx) = ok(un.snap[i])

C34_Witness ==
    \E i \in Threads :
        /\ UnitJustDone(i)
        /\ un.snap[i].current = _pending
        /\ Len(un.snap[i].history) = 1
        /\ un.tx = un.snap[i]
        /\ un.calls[i] = <<>>

UnitsDone == \A i \in Threads : un.pc[i] = 3

StartOpenPending ==
    /\ un.start.tx.current = _pending
    /\ un.start.b = "open"

\* the calls, in the order made and whichever thread made them, are those
\* of properly nested units: no Commit is the very next call after a
\* Commit, and no Close the very next call after a Begin
NestedOrder ==
    \A k \in 1..(Len(un.ops) - 1) :
        /\ ~(un.ops[k] = "Commit" /\ un.ops[k + 1] = "Commit")
        /\ ~(un.ops[k] = "Begin" /\ un.ops[k + 1] = "Close")

\* both Commits returned nil, no backend rollback was made, the sticky flag
\* is unset, and current and history are what they started as
UnitsUnharmed ==
    /\ \A i \in Threads : Len(un.errs[i]) = 3 /\ un.errs[i][2] = ErrNil
    /\ \A i \in Threads : Count(un.calls[i], "rollback") = 0
    /\ ~RolledBack(un.tx)
    /\ un.tx.current = un.start.tx.current
    /\ un.tx.history = un.start.tx.history

\* C37 as stated: when two threads have each run Begin; Commit; Close on
\* the same open pending Tx, every call holding the mutex, then under every
\* interleaving of the calls both Commits returned nil, no backend rollback
\* was made, RolledBack() is false and current and history ended as they
\* started.
C37_Original == (UnitsDone /\ StartOpenPending) => UnitsUnharmed

\* C37, amended: the same holds under every interleaving in which no
\* Commit is the very next call after the other thread's Commit and no Close
\* the very next call after the other thread's Begin; under every other
\* interleaving a Commit returns ErrTxCommitted or a Close makes a backend
\* rollback.
C37_NestedOrderUnharmed ==
    /\ (UnitsDone /\ StartOpenPending /\ NestedOrder) => UnitsUnharmed
    /\ (UnitsDone /\ StartOpenPending /\ ~NestedOrder) =>
          \E i \in Threads :
              \/ Len(un.errs[i]) = 3 /\ un.errs[i][2] = ErrTxCommitted
              \/ Count(un.calls[i], "rollback") > 0

C37_Witness ==
    /\ UnitsDone
    /\ StartOpenPending
    /\ un.order = <<1, 2, 1, 1, 2, 2>>
    /\ NestedOrder
    /\ UnitsUnharmed
====
